---------------------------- MODULE Spec2Model ----------------------------
(***************************************************************************)
(* La Nonna API (src/main.py, src/schemas.py): a form-intake facade that   *)
(* validates JSON payloads against pydantic record shapes and forwards     *)
(* them to a document store through create_document / get_documents.       *)
(*                                                                         *)
(* Python values are modelled as tagged records: [t |-> "str", ...],       *)
(* [t |-> "int", v |-> i], [t |-> "none"] (None / JSON null),              *)
(* [t |-> "missing"] (key absent from the JSON body), ObjectId, Exception. *)
(* A string carries a token naming its content, its length and its shape   *)
(* (plain text, e-mail address, ISO date, ISO time): the attributes the    *)
(* field constraints of src/schemas.py read.                               *)
(***************************************************************************)
EXTENDS Integers, Sequences, FiniteSets, TLC

VARIABLES
    db,          \* the handle imported from database: "handle" or "None"
    env,         \* process environment: which of DATABASE_URL / DATABASE_NAME are set
    reachable,   \* whether the store currently answers operations
    store,       \* collection name -> sequence of stored documents (insertion order)
    nextOid,     \* next identifier the store will generate
    issued,      \* history: identifiers returned by successful inserts, in order
    req,         \* the last HTTP request handled
    resp         \* the response given to it

vars == <<db, env, reachable, store, nextOid, issued, req, resp>>

---------------------------------------------------------------------------
(* Bounds of the model *)

\* identifiers the store may generate (caps the number of stored documents)
MaxOid == 2
\* unrelated collections that may exist in the database beside the application's
MaxExtra == 11

---------------------------------------------------------------------------
(* Python values *)

Min(a, b) == IF a <= b THEN a ELSE b

StrV(s, n, fmt) == [t |-> "str", s |-> s, len |-> n, fmt |-> fmt]
Text(s, n) == StrV(s, n, "text")
IntV(i) == [t |-> "int", v |-> i]
FloatV(i) == [t |-> "float", v |-> i]
NoneV == [t |-> "none"]
Missing == [t |-> "missing"]
ObjectId(k) == [t |-> "ObjectId", n |-> k]
Exception(msg) == [t |-> "Exception", msg |-> msg]

Range(f) == {f[i] : i \in DOMAIN f}

\* str(x) as the handlers use it: on the popped _id and on a caught exception
Str(x) ==
    CASE x.t = "ObjectId" -> Text(ToString(x.n), Len(ToString(x.n)))
      [] x.t = "Exception" -> x.msg
      [] x.t = "str" -> x

\* s[:n] on a string
Slice(x, n) ==
    IF x.len <= n THEN x
    ELSE [x EXCEPT !.s = x.s \o "[:" \o ToString(n) \o "]", !.len = n]

\* q[:n] on a list
Take(q, n) == SubSeq(q, 1, Min(n, Len(q)))

---------------------------------------------------------------------------
(* Record shapes of src/schemas.py: declared field names, in declaration order *)

UserFields == <<"name", "email", "address", "age", "is_active">>
ProductFields == <<"title", "description", "price", "category", "in_stock">>
ReservationFields == <<"name", "email", "phone", "date", "time", "guests", "notes">>
EventRequestFields ==
    <<"name", "company", "email", "phone", "event_date", "event_type",
      "guests", "budget_chf", "message">>
ContactMessageFields == <<"name", "email", "phone", "subject", "message">>
TestimonialFields == <<"author", "rating", "content", "source">>
MenuItemFields == <<"title", "description", "price_chf", "category">>

(* Field(...) constraints.  Each yields whether the raw value is accepted. *)

\* str = Field(..., min_length=lo, max_length=hi); hi = -1 when no max_length
ReqStr(x, lo, hi) == x.t = "str" /\ x.len >= lo /\ (hi = -1 \/ x.len <= hi)
\* Optional[str] = Field(None, max_length=hi)
OptStr(x, hi) == x.t \in {"missing", "none"} \/ (x.t = "str" /\ (hi = -1 \/ x.len <= hi))
\* EmailStr
ReqEmail(x) == x.t = "str" /\ x.fmt = "email"
\* date / time
ReqDate(x) == x.t = "str" /\ x.fmt = "date"
ReqTime(x) == x.t = "str" /\ x.fmt = "time"
\* int = Field(..., ge=lo, le=hi)
ReqInt(x, lo, hi) == x.t = "int" /\ x.v >= lo /\ x.v <= hi
\* Optional[float] = Field(None, ge=lo)
OptFloat(x, lo) == x.t \in {"missing", "none"} \/ (x.t \in {"int", "float"} /\ x.v >= lo)

\* the validated instance: declared fields only, absent optionals take the
\* default None, an integer given for a float field becomes a float
Instance(fields, p) ==
    [f \in Range(fields) |->
        IF p[f].t = "missing" THEN NoneV
        ELSE IF f = "budget_chf" /\ p[f].t = "int" THEN FloatV(p[f].v)
        ELSE p[f]]

\* variant: the guests range off by one at both ends (ge=0, le=21)
ValidReservationOff(p) ==
    /\ ReqStr(p["name"], 2, -1)
    /\ ReqEmail(p["email"])
    /\ ReqStr(p["phone"], 6, 30)
    /\ ReqDate(p["date"])
    /\ ReqTime(p["time"])
    /\ ReqInt(p["guests"], 0, 21)
    /\ OptStr(p["notes"], 500)

ValidReservation(p) ==
    /\ ReqStr(p["name"], 2, -1)
    /\ ReqEmail(p["email"])
    /\ ReqStr(p["phone"], 6, 30)
    /\ ReqDate(p["date"])
    /\ ReqTime(p["time"])
    /\ ReqInt(p["guests"], 1, 20)
    /\ OptStr(p["notes"], 500)

ValidEventRequest(p) ==
    /\ ReqStr(p["name"], 2, -1)
    /\ OptStr(p["company"], 120)
    /\ ReqEmail(p["email"])
    /\ ReqStr(p["phone"], 6, 30)
    /\ ReqDate(p["event_date"])
    /\ ReqStr(p["event_type"], 0, -1)
    /\ ReqInt(p["guests"], 10, 200)
    /\ OptFloat(p["budget_chf"], 0)
    /\ OptStr(p["message"], 2000)

ValidContactMessage(p) ==
    /\ ReqStr(p["name"], 2, -1)
    /\ ReqEmail(p["email"])
    /\ OptStr(p["phone"], 30)
    /\ ReqStr(p["subject"], 0, 120)
    /\ ReqStr(p["message"], 0, 2000)

ValidTestimonial(p) ==
    /\ ReqStr(p["author"], 2, -1)
    /\ ReqInt(p["rating"], 1, 5)
    /\ ReqStr(p["content"], 0, 600)
    /\ OptStr(p["source"], -1)

---------------------------------------------------------------------------
(* Request payloads: for each record kind its two boundary payloads (every *)
(* constrained field at its smallest / largest accepted value) and the     *)
(* payloads that differ from the first in one field.                       *)

With(p, f, x) == [p EXCEPT ![f] = x]
Variants(p, devs) == {With(p, d[1], d[2]) : d \in devs}

AnEmail == StrV("jo@x.com", 8, "email")
ADate == StrV("2026-12-24", 10, "date")
ATime == StrV("19:30", 5, "time")

ReservationMin ==
    [name |-> Text("Jo", 2), email |-> AnEmail, phone |-> Text("p6", 6),
     date |-> ADate, time |-> ATime, guests |-> IntV(1), notes |-> Missing]
ReservationMax ==
    [name |-> Text("Jo Doe", 6), email |-> AnEmail, phone |-> Text("p30", 30),
     date |-> ADate, time |-> ATime, guests |-> IntV(20), notes |-> Text("n500", 500)]
ReservationPayloads ==
    {ReservationMin, ReservationMax} \cup
    Variants(ReservationMin,
        {<<"name", Missing>>, <<"name", Text("J", 1)>>,
         <<"email", Text("jo-at-x", 7)>>,
         <<"phone", Text("p5", 5)>>, <<"phone", Text("p31", 31)>>,
         <<"date", Text("tomorrow", 8)>>,
         <<"time", Text("late", 4)>>,
         <<"guests", Missing>>, <<"guests", IntV(0)>>, <<"guests", IntV(21)>>,
         <<"guests", Text("many", 4)>>,
         <<"notes", NoneV>>, <<"notes", Text("n501", 501)>>})

EventRequestMin ==
    [name |-> Text("Jo", 2), company |-> Missing, email |-> AnEmail,
     phone |-> Text("p6", 6), event_date |-> ADate, event_type |-> Text("Cocktail", 8),
     guests |-> IntV(10), budget_chf |-> Missing, message |-> Missing]
EventRequestMax ==
    [name |-> Text("Jo Doe", 6), company |-> Text("c120", 120), email |-> AnEmail,
     phone |-> Text("p30", 30), event_date |-> ADate, event_type |-> Text("Cocktail", 8),
     guests |-> IntV(200), budget_chf |-> IntV(0), message |-> Text("m2000", 2000)]
EventRequestPayloads ==
    {EventRequestMin, EventRequestMax} \cup
    Variants(EventRequestMin,
        {<<"name", Text("J", 1)>>,
         <<"company", Text("c121", 121)>>,
         <<"email", Missing>>,
         <<"phone", Text("p5", 5)>>,
         <<"event_date", Text("soon", 4)>>,
         <<"event_type", Missing>>,
         <<"guests", IntV(9)>>, <<"guests", IntV(201)>>,
         <<"budget_chf", FloatV(-1)>>, <<"budget_chf", Text("cheap", 5)>>,
         <<"message", Text("m2001", 2001)>>})

ContactMessageMin ==
    [name |-> Text("Jo Doe", 6), email |-> AnEmail, phone |-> Missing,
     subject |-> Text("Hi", 2), message |-> Text("Test", 4)]
ContactMessageMax ==
    [name |-> Text("Jo", 2), email |-> AnEmail, phone |-> Text("p30", 30),
     subject |-> Text("s120", 120), message |-> Text("m2000", 2000)]
ContactMessagePayloads ==
    {ContactMessageMin, ContactMessageMax} \cup
    Variants(ContactMessageMin,
        {<<"name", Missing>>,
         <<"email", Text("jo-at-x", 7)>>,
         <<"phone", Text("p31", 31)>>,
         <<"subject", Missing>>, <<"subject", Text("s121", 121)>>,
         <<"message", Missing>>, <<"message", Text("m2001", 2001)>>})

TestimonialMin ==
    [author |-> Text("Al", 2), rating |-> IntV(1), content |-> Text("", 0),
     source |-> Missing]
TestimonialMax ==
    [author |-> Text("Bea", 3), rating |-> IntV(5), content |-> Text("c600", 600),
     source |-> Text("Google", 6)]
TestimonialPayloads ==
    {TestimonialMin, TestimonialMax} \cup
    Variants(TestimonialMin,
        {<<"author", Text("A", 1)>>, <<"rating", IntV(0)>>, <<"rating", IntV(6)>>,
         <<"content", Text("c601", 601)>>})

---------------------------------------------------------------------------
(* Storage gateway (module database: create_document, get_documents, db)   *)

None == "None"
Handle == "handle"

Collections == {"reservation", "eventrequest", "contactmessage", "testimonial"}
AppCollectionOrder == <<"reservation", "eventrequest", "contactmessage", "testimonial">>

\* an operation on the store succeeds only with a handle and a reachable store
Available == db = Handle /\ reachable

\* errors an operation on the store may raise
NoError == Exception(Text("", 0))
Exceptions ==
    {Exception(Text("Database not available", 22)),
     Exception(Text("ServerSelectionTimeoutError: localhost:27017 ...", 60))}

\* the stored document: the serialized record keyed by the generated identifier
Doc(inst, oid) ==
    [k \in DOMAIN inst \cup {"_id"} |-> IF k = "_id" THEN oid ELSE inst[k]]

\* variant: the identifier is derived from the collection's size, not generated
create_document_bycount(coll, inst) ==
    IF Available
    THEN {[raised |-> FALSE,
           value |-> Str(ObjectId(Len(store[coll]) + 1)),
           store |-> [store EXCEPT ![coll] =
                        Append(@, Doc(inst, ObjectId(Len(store[coll]) + 1)))],
           nextOid |-> nextOid + 1]}
    ELSE {[raised |-> TRUE, exc |-> e, store |-> store, nextOid |-> nextOid] :
            e \in Exceptions}

\* insert(collectionName, record): the possible outcomes, the generated
\* identifier returned or an error raised
create_document(coll, inst) ==
    IF Available
    THEN {[raised |-> FALSE,
           value |-> Str(ObjectId(nextOid)),
           store |-> [store EXCEPT ![coll] = Append(@, Doc(inst, ObjectId(nextOid)))],
           nextOid |-> nextOid + 1]}
    ELSE {[raised |-> TRUE, exc |-> e, store |-> store, nextOid |-> nextOid] :
            e \in Exceptions}

\* fetch(collectionName, {}, limit): the possible outcomes.  At most `limit`
\* records in insertion order; for a negative limit "at most limit records"
\* cannot be met, so every outcome (any prefix, or an error) is possible.
get_documents(coll, limit) ==
    IF ~Available THEN {[raised |-> TRUE, exc |-> e] : e \in Exceptions}
    ELSE IF limit >= 0 THEN {[raised |-> FALSE, value |-> Take(store[coll], limit)]}
    ELSE {[raised |-> TRUE, exc |-> e] : e \in Exceptions} \cup
         {[raised |-> FALSE, value |-> Take(store[coll], n)] : n \in 0..Len(store[coll])}

\* db.list_collection_names(): the collections that exist in the database
ExtraNames(n) == [i \in 1..n |-> "coll" \o ToString(i)]
list_collection_names(extra) ==
    ExtraNames(extra) \o SelectSeq(AppCollectionOrder, LAMBDA c : store[c] # <<>>)

---------------------------------------------------------------------------
(* Initial state: the process has started, nothing was requested yet *)

NoRequest == [route |-> "none", method |-> "none"]
NoResponse == [status |-> 0, inserts |-> 0]

Init ==
    /\ env \in [{"DATABASE_URL", "DATABASE_NAME"} -> BOOLEAN]
    /\ db = IF env["DATABASE_URL"] /\ env["DATABASE_NAME"] THEN Handle ELSE None
    /\ reachable \in BOOLEAN
    /\ store = [c \in Collections |-> <<>>]
    /\ nextOid = 1
    /\ issued = <<>>
    /\ req = NoRequest
    /\ resp = NoResponse

Startup == <<db, env>>

---------------------------------------------------------------------------
(* Route handlers of src/main.py.  resp.inserts counts the create_document *)
(* calls the handler made while serving the request.                       *)

Clock == {"2026-11-04T10:00:00", "2026-11-04T10:00:01"}

read_root ==
    \E now \in Clock :
        /\ req' = [route |-> "/", method |-> "GET"]
        /\ resp' = [status |-> 200, inserts |-> 0,
                    body |-> [message |-> Text("La Nonna API running", 20),
                              time |-> StrV(now, 19, "datetime")]]
        /\ UNCHANGED <<store, nextOid, issued, reachable, Startup>>

hello ==
    /\ req' = [route |-> "/api/hello", method |-> "GET"]
    /\ resp' = [status |-> 200, inserts |-> 0,
                body |-> [message |-> Text("Buongiorno dalla cucina!", 24)]]
    /\ UNCHANGED <<store, nextOid, issued, reachable, Startup>>

\* os.getenv(name) rendered as the diagnostic's Set / Not Set
EnvStatus(name) == IF env[name] THEN Text("Set", 5) ELSE Text("Not Set", 9)

\* variant: the collection names are not cut to ten
test_database_response_uncut(extra, e) ==
    LET response == [backend |-> Text("Running", 9),
                     database |-> Text("Not Available", 15),
                     database_url |-> NoneV,
                     database_name |-> NoneV,
                     connection_status |-> Text("Not Connected", 13),
                     collections |-> <<>>]
        connected == [response EXCEPT
                        !.database = Text("Available", 11),
                        !.database_url = Text("Configured", 12),
                        !.database_name = Text("Connected", 11),
                        !.connection_status = Text("Connected", 9)]
        listed == IF reachable
                  THEN [connected EXCEPT
                          !.collections = list_collection_names(extra),
                          !.database = Text("Connected & Working", 21)]
                  ELSE [connected EXCEPT
                          !.database = Text("Connected but Error: " \o Slice(Str(e), 50).s,
                                            25 + Slice(Str(e), 50).len)]
        checked == IF db # None THEN listed
                   ELSE [response EXCEPT
                           !.database = Text("Available but not initialized", 33)]
    IN [status |-> 200, inserts |-> 0,
        body |-> [checked EXCEPT !.database_url = EnvStatus("DATABASE_URL"),
                                 !.database_name = EnvStatus("DATABASE_NAME")]]

test_database_response(extra, e) ==
    LET response == [backend |-> Text("Running", 9),
                     database |-> Text("Not Available", 15),
                     database_url |-> NoneV,
                     database_name |-> NoneV,
                     connection_status |-> Text("Not Connected", 13),
                     collections |-> <<>>]
        connected == [response EXCEPT
                        !.database = Text("Available", 11),
                        !.database_url = Text("Configured", 12),
                        !.database_name = Text("Connected", 11),
                        !.connection_status = Text("Connected", 9)]
        listed == IF reachable
                  THEN [connected EXCEPT
                          !.collections = Take(list_collection_names(extra), 10),
                          !.database = Text("Connected & Working", 21)]
                  ELSE [connected EXCEPT
                          !.database = Text("Connected but Error: " \o Slice(Str(e), 50).s,
                                            25 + Slice(Str(e), 50).len)]
        checked == IF db # None THEN listed
                   ELSE [response EXCEPT
                           !.database = Text("Available but not initialized", 33)]
    IN [status |-> 200, inserts |-> 0,
        body |-> [checked EXCEPT !.database_url = EnvStatus("DATABASE_URL"),
                                 !.database_name = EnvStatus("DATABASE_NAME")]]

test_database ==
    \E extra \in {0, MaxExtra}, e \in (IF Available THEN {NoError} ELSE Exceptions) :
        /\ req' = [route |-> "/test", method |-> "GET"]
        /\ resp' = test_database_response(extra, e)
        /\ UNCHANGED <<store, nextOid, issued, reachable, Startup>>

\* the framework's answer to a body that fails validation: the handler is not called
Unprocessable == [status |-> 422, inserts |-> 0, body |-> [detail |-> Text("validation", 10)]]

\* variant: the error is reported in a success response instead of raised as a 500
CreatedSwallow(r) ==
    IF r.raised
    THEN [status |-> 200, inserts |-> 1, body |-> [ok |-> FALSE, id |-> Str(r.exc)]]
    ELSE [status |-> 200, inserts |-> 1, body |-> [ok |-> TRUE, id |-> r.value]]

\* try: inserted_id = create_document(...); return {"ok": True, "id": inserted_id}
\* except Exception as e: raise HTTPException(status_code=500, detail=str(e))
Created(r) ==
    IF r.raised
    THEN [status |-> 500, inserts |-> 1, body |-> [detail |-> Str(r.exc)]]
    ELSE [status |-> 200, inserts |-> 1, body |-> [ok |-> TRUE, id |-> r.value]]

\* the effect of one create_document call on the store
Stored(r) ==
    /\ ~r.raised => nextOid <= MaxOid
    /\ store' = r.store
    /\ nextOid' = r.nextOid
    /\ issued' = IF resp'.status = 200 THEN Append(issued, resp'.body.id) ELSE issued

create_reservation ==
    \E p \in ReservationPayloads :
        /\ req' = [route |-> "/api/reservations", method |-> "POST", payload |-> p]
        /\ IF ValidReservation(p)
           THEN \E r \in create_document("reservation", Instance(ReservationFields, p)) :
                    resp' = Created(r) /\ Stored(r)
           ELSE resp' = Unprocessable /\ UNCHANGED <<store, nextOid, issued>>
        /\ UNCHANGED <<reachable, Startup>>

\* variant: the event request is written to the reservation collection
create_event_request_misfiled ==
    \E p \in EventRequestPayloads :
        /\ req' = [route |-> "/api/events", method |-> "POST", payload |-> p]
        /\ IF ValidEventRequest(p)
           THEN \E r \in create_document("reservation", Instance(EventRequestFields, p)) :
                    resp' = Created(r) /\ Stored(r)
           ELSE resp' = Unprocessable /\ UNCHANGED <<store, nextOid, issued>>
        /\ UNCHANGED <<reachable, Startup>>

create_event_request ==
    \E p \in EventRequestPayloads :
        /\ req' = [route |-> "/api/events", method |-> "POST", payload |-> p]
        /\ IF ValidEventRequest(p)
           THEN \E r \in create_document("eventrequest", Instance(EventRequestFields, p)) :
                    resp' = Created(r) /\ Stored(r)
           ELSE resp' = Unprocessable /\ UNCHANGED <<store, nextOid, issued>>
        /\ UNCHANGED <<reachable, Startup>>

create_contact_message ==
    \E p \in ContactMessagePayloads :
        /\ req' = [route |-> "/api/contact", method |-> "POST", payload |-> p]
        /\ IF ValidContactMessage(p)
           THEN \E r \in create_document("contactmessage", Instance(ContactMessageFields, p)) :
                    resp' = Created(r) /\ Stored(r)
           ELSE resp' = Unprocessable /\ UNCHANGED <<store, nextOid, issued>>
        /\ UNCHANGED <<reachable, Startup>>

\* limit: int = 6
DefaultLimit == 6
Limits == {-1, 0, 1, 2}
LimitOf(query) == IF query.t = "missing" THEN DefaultLimit ELSE query.v

\* variant: d["id"] = str(d["_id"]), the _id key is not popped
NormalizeKeep(d) ==
    IF "_id" \in DOMAIN d
    THEN [k \in DOMAIN d \cup {"id"} |-> IF k = "id" THEN Str(d["_id"]) ELSE d[k]]
    ELSE d

\* for d in docs: if "_id" in d: d["id"] = str(d.pop("_id"))
Normalize(d) ==
    IF "_id" \in DOMAIN d
    THEN [k \in (DOMAIN d \ {"_id"}) \cup {"id"} |->
            IF k = "id" THEN Str(d["_id"]) ELSE d[k]]
    ELSE d

Fallback ==
    <<[author |-> Text("Cliente heureux", 15), rating |-> IntV(5),
       content |-> Text("Pizzas savoureuses et accueil chaleureux", 76),
       source |-> Text("Avis client", 11)],
      [author |-> Text("Famille B.", 10), rating |-> IntV(5),
       content |-> Text("Salle parfaite pour notre fete familiale", 61),
       source |-> Text("Avis client", 11)]>>

\* variant: the second fallback entry is listed first
list_testimonials_response_swapped(r) ==
    IF r.raised
    THEN [status |-> 200, inserts |-> 0, fetch |-> "raised",
          body |-> [items |-> <<Fallback[2], Fallback[1]>>]]
    ELSE [status |-> 200, inserts |-> 0, fetch |-> "returned",
          body |-> [items |-> [i \in 1..Len(r.value) |-> Normalize(r.value[i])]]]

\* resp.fetch records whether get_documents returned or raised
list_testimonials_response(r) ==
    IF r.raised
    THEN [status |-> 200, inserts |-> 0, fetch |-> "raised",
          body |-> [items |-> Fallback]]
    ELSE [status |-> 200, inserts |-> 0, fetch |-> "returned",
          body |-> [items |-> [i \in 1..Len(r.value) |-> Normalize(r.value[i])]]]

\* variant: the normalisation is written back to the stored documents
list_testimonials_inplace ==
    \E query \in {Missing} \cup {IntV(n) : n \in Limits} :
        \E r \in get_documents("testimonial", LimitOf(query)) :
            /\ req' = [route |-> "/api/testimonials", method |-> "GET", limit |-> query]
            /\ resp' = list_testimonials_response(r)
            /\ store' = IF r.raised THEN store
                        ELSE [store EXCEPT !["testimonial"] =
                                [i \in 1..Len(@) |->
                                    IF i <= Len(r.value) THEN Normalize(@[i]) ELSE @[i]]]
            /\ UNCHANGED <<nextOid, issued, reachable, Startup>>

list_testimonials ==
    \E query \in {Missing} \cup {IntV(n) : n \in Limits} :
        \E r \in get_documents("testimonial", LimitOf(query)) :
            /\ req' = [route |-> "/api/testimonials", method |-> "GET", limit |-> query]
            /\ resp' = list_testimonials_response(r)
            /\ UNCHANGED <<store, nextOid, issued, reachable, Startup>>

SchemaInfo(name, fields) == [name |-> name, fields |-> fields]

\* variant: every shape of schemas.py is listed, the example ones included
schema_info_response_all ==
    <<SchemaInfo("user", UserFields),
      SchemaInfo("product", ProductFields),
      SchemaInfo("reservation", ReservationFields),
      SchemaInfo("eventrequest", EventRequestFields),
      SchemaInfo("contactmessage", ContactMessageFields),
      SchemaInfo("testimonial", TestimonialFields),
      SchemaInfo("menuitem", MenuItemFields)>>

schema_info_response ==
    <<SchemaInfo("reservation", ReservationFields),
      SchemaInfo("eventrequest", EventRequestFields),
      SchemaInfo("contactmessage", ContactMessageFields),
      SchemaInfo("testimonial", TestimonialFields)>>

schema_info ==
    /\ req' = [route |-> "/schema", method |-> "GET"]
    /\ resp' = [status |-> 200, inserts |-> 0, body |-> schema_info_response]
    /\ UNCHANGED <<store, nextOid, issued, reachable, Startup>>

---------------------------------------------------------------------------
(* Environment: the store goes down and comes back; testimonials are put   *)
(* into their collection through the gateway by whoever curates them (no   *)
(* route does it).                                                         *)

StoreDown == reachable /\ reachable' = FALSE /\ UNCHANGED <<store, nextOid, issued, req, resp, Startup>>
StoreUp == ~reachable /\ reachable' = TRUE /\ UNCHANGED <<store, nextOid, issued, req, resp, Startup>>

SeedTestimonial ==
    \E p \in TestimonialPayloads :
        /\ ValidTestimonial(p)
        /\ \E r \in create_document("testimonial", Instance(TestimonialFields, p)) :
              /\ ~r.raised
              /\ nextOid <= MaxOid
              /\ store' = r.store
              /\ nextOid' = r.nextOid
              /\ issued' = Append(issued, r.value)
        /\ UNCHANGED <<req, resp, reachable, Startup>>

Next ==
    \/ read_root
    \/ hello
    \/ test_database
    \/ create_reservation
    \/ create_event_request
    \/ create_contact_message
    \/ list_testimonials
    \/ schema_info
    \/ StoreDown
    \/ StoreUp
    \/ SeedTestimonial

Spec == Init /\ [][Next]_vars

---------------------------------------------------------------------------
(* Properties *)

\* the step is handler A serving a request to `route`
Serves(route, A) == req'.route = route /\ A

PostReservation == Serves("/api/reservations", create_reservation)
PostEvent == Serves("/api/events", create_event_request)
PostContact == Serves("/api/contact", create_contact_message)
GetTestimonials == Serves("/api/testimonials", list_testimonials)
GetTest == Serves("/test", test_database)
IsPost == PostReservation \/ PostEvent \/ PostContact
IsGet ==
    \/ Serves("/", read_root)
    \/ Serves("/api/hello", hello)
    \/ GetTest
    \/ GetTestimonials
    \/ Serves("/schema", schema_info)

\* The field rules of the data model, stated on a raw payload: a required
\* field is absent or null, a value has the wrong type or shape, a length or
\* a number is out of range.
Absent(x) == x.t \in {"missing", "none"}
\* hi = -1: no maximum length
BadText(x, lo, hi) == x.t # "str" \/ x.len < lo \/ (hi >= 0 /\ x.len > hi)
BadShape(x, fmt) == x.t # "str" \/ x.fmt # fmt
BadNumber(x, lo, hi) == x.t # "int" \/ x.v < lo \/ x.v > hi

ViolatesReservation(p) ==
    \/ \E f \in {"name", "email", "phone", "date", "time", "guests"} : Absent(p[f])
    \/ BadText(p["name"], 2, -1)
    \/ BadShape(p["email"], "email")
    \/ BadText(p["phone"], 6, 30)
    \/ BadShape(p["date"], "date")
    \/ BadShape(p["time"], "time")
    \/ BadNumber(p["guests"], 1, 20)
    \/ (~Absent(p["notes"]) /\ BadText(p["notes"], 0, 500))

ViolatesEventRequest(p) ==
    \/ \E f \in {"name", "email", "phone", "event_date", "event_type", "guests"} :
          Absent(p[f])
    \/ BadText(p["name"], 2, -1)
    \/ (~Absent(p["company"]) /\ BadText(p["company"], 0, 120))
    \/ BadShape(p["email"], "email")
    \/ BadText(p["phone"], 6, 30)
    \/ BadShape(p["event_date"], "date")
    \/ BadNumber(p["guests"], 10, 200)
    \/ (~Absent(p["budget_chf"]) /\
          (p["budget_chf"].t \notin {"int", "float"} \/ p["budget_chf"].v < 0))
    \/ (~Absent(p["message"]) /\ BadText(p["message"], 0, 2000))

ViolatesContactMessage(p) ==
    \/ \E f \in {"name", "email", "subject", "message"} : Absent(p[f])
    \/ BadText(p["name"], 2, -1)
    \/ BadShape(p["email"], "email")
    \/ (~Absent(p["phone"]) /\ BadText(p["phone"], 0, 30))
    \/ BadText(p["subject"], 0, 120)
    \/ BadText(p["message"], 0, 2000)

Violates(r) ==
    CASE r.route = "/api/reservations" -> ViolatesReservation(r.payload)
      [] r.route = "/api/events" -> ViolatesEventRequest(r.payload)
      [] r.route = "/api/contact" -> ViolatesContactMessage(r.payload)

\* C1: a POST to /api/reservations, /api/events or /api/contact whose payload
\* violates a field constraint of its record kind is rejected before any
\* insert is attempted: a 4xx answer without an id, no create_document call,
\* the store and its identifier counter unchanged.
C1_InvalidRejectedBeforeStore ==
    [][(req'.method = "POST" /\ Violates(req') /\ IsPost)
        => /\ resp'.status = 422
           /\ resp'.inserts = 0
           /\ "id" \notin DOMAIN resp'.body
           /\ store' = store
           /\ nextOid' = nextOid
           /\ issued' = issued]_vars

\* a reservation for 21 guests was answered with a rejection (with the store up)
C1_Witness ==
    /\ req.route = "/api/reservations"
    /\ req.payload["guests"].t = "int"
    /\ req.payload["guests"].v = 21
    /\ Available
    /\ resp.status = 422

\* C2: every identifier returned by a successful insert (of any of the four
\* kinds, into any collection) is non-empty and differs from every identifier
\* returned before it; the id of a successful POST is the latest of them.
C2_IdsDistinct ==
    /\ \A i \in 1..Len(issued) :
          /\ issued[i].t = "str"
          /\ issued[i].len > 0
          /\ \A j \in 1..Len(issued) : i # j => issued[i].s # issued[j].s
    /\ (req.method = "POST" /\ resp.status = 200)
          => (resp.body.ok /\ resp.body.id \in Range(issued))

\* two inserts into different collections have both returned an identifier
C2_Witness ==
    /\ Len(issued) >= 2
    /\ \E c, d \in Collections : c # d /\ store[c] # <<>> /\ store[d] # <<>>
    /\ req.method = "POST"
    /\ resp.status = 200

\* C3: when the store is unreachable or the fetch fails, GET /api/testimonials
\* answers 200 with exactly the two fallback testimonials, "Cliente heureux"
\* first and "Famille B." second, whatever the limit.
C3_FallbackOnFailure ==
    [][(GetTestimonials /\ (~Available \/ resp'.fetch = "raised"))
        => /\ resp'.status = 200
           /\ Len(resp'.body.items) = 2
           /\ resp'.body.items[1]["author"].s = "Cliente heureux"
           /\ resp'.body.items[2]["author"].s = "Famille B."
           /\ \A i \in 1..2 :
                 /\ DOMAIN resp'.body.items[i] = {"author", "rating", "content", "source"}
                 /\ resp'.body.items[i]["rating"] = IntV(5)
                 /\ resp'.body.items[i]["source"].s = "Avis client"]_vars

\* the testimonials were asked for with limit=1 while the store, holding a
\* testimonial, was down
C3_Witness ==
    /\ req.route = "/api/testimonials"
    /\ req.limit = IntV(1)
    /\ ~reachable
    /\ store["testimonial"] # <<>>
    /\ resp.fetch = "raised"

\* C4: when the insert fails on a POST with a valid payload, the handler
\* answers 500 carrying the error text, with neither ok nor id, after exactly
\* one insert attempt, and nothing is stored.
C4_InsertFailureIs500 ==
    [][(req'.method = "POST" /\ ~Available /\ ~Violates(req') /\ IsPost)
        => /\ resp'.status = 500
           /\ resp'.body.detail \in {e.msg : e \in Exceptions}
           /\ DOMAIN resp'.body = {"detail"}
           /\ resp'.inserts = 1
           /\ store' = store
           /\ issued' = issued]_vars

\* the contact message of the concrete scenario met a store that was down
C4_Witness ==
    /\ req.route = "/api/contact"
    /\ req.payload = ContactMessageMin
    /\ db = Handle
    /\ ~reachable
    /\ resp.status = 500

\* C5: with the store reachable, every stored testimonial within the fetch
\* limit appears in the items at its position with author, rating and content
\* unchanged, the identifier returned at its insert exposed as a string under
\* id, and no _id key.
C5_TestimonialRoundTrip ==
    [][(GetTestimonials /\ Available)
        => \A i \in 1..Len(store["testimonial"]) :
              i <= LimitOf(req'.limit)
              => /\ i <= Len(resp'.body.items)
                 /\ LET d == store["testimonial"][i]
                        item == resp'.body.items[i]
                    IN /\ item["author"] = d["author"]
                       /\ item["rating"] = d["rating"]
                       /\ item["content"] = d["content"]
                       /\ "id" \in DOMAIN item
                       /\ item["id"].t = "str"
                       /\ item["id"] = issued[d["_id"].n]
                       /\ "_id" \notin DOMAIN item]_vars

\* the second of two stored testimonials was fetched
C5_Witness ==
    /\ req.route = "/api/testimonials"
    /\ Available
    /\ Len(store["testimonial"]) = 2
    /\ resp.fetch = "returned"
    /\ Len(resp.body.items) = 2
    /\ resp.body.items[2]["author"] = store["testimonial"][2]["author"]

\* C6: no step updates or deletes a stored document: each collection keeps
\* every document it held, at its position, with unchanged content.
C6_StoredDocumentsImmutable ==
    [][\A c \in Collections :
          /\ Len(store'[c]) >= Len(store[c])
          /\ \A i \in 1..Len(store[c]) : store'[c][i] = store[c][i]]_vars

\* a stored testimonial was fetched, and a reservation stored after it
C6_Witness ==
    /\ store["testimonial"] # <<>>
    /\ store["reservation"] # <<>>
    /\ store["testimonial"][1]["_id"].n < store["reservation"][1]["_id"].n
    /\ req.route = "/api/testimonials"
    /\ resp.fetch = "returned"
    /\ resp.body.items # <<>>

\* C7: with the store reachable, GET /api/testimonials?limit=N (N = 6 when no
\* limit is given) returns at most N items, and they are the first stored
\* testimonials in insertion order.
C7_AtMostLimitInOrder ==
    [][(GetTestimonials /\ Available)
        => /\ Len(resp'.body.items) <= LimitOf(req'.limit)
           /\ Len(resp'.body.items) <= Len(store["testimonial"])
           /\ \A i \in 1..Len(resp'.body.items) :
                 resp'.body.items[i]["id"] = issued[store["testimonial"][i]["_id"].n]]_vars

\* C8: GET /test never raises: in every store state it answers with the
\* diagnostic object, the state of the store reported in its database field,
\* and at most 10 collection names.
C8_DiagnosticNeverRaises ==
    [][GetTest
        => /\ resp'.status = 200
           /\ DOMAIN resp'.body = {"backend", "database", "database_url",
                                   "database_name", "connection_status", "collections"}
           /\ Len(resp'.body.collections) <= 10
           /\ resp'.body.database.t = "str"
           /\ (db = None) = (resp'.body.database.s = "Available but not initialized")
           /\ Available = (resp'.body.database.s = "Connected & Working")
           /\ (db = Handle /\ ~reachable)
                 => resp'.body.database.s \in
                       {"Connected but Error: " \o Slice(e.msg, 50).s : e \in Exceptions}
           /\ resp'.body.database.len <= 75
           /\ ~Available => resp'.body.collections = <<>>]_vars

\* the diagnostic was asked for with a handle whose listing failed with an
\* error text longer than 50 characters
C8_Witness ==
    /\ req.route = "/test"
    /\ db = Handle
    /\ ~reachable
    /\ resp.status = 200
    /\ resp.body.database.len = 75

\* C9: GET /schema returns exactly the four entries reservation, eventrequest,
\* contactmessage, testimonial, in that order, each with its declared field
\* names in declaration order; User, Product and MenuItem are not listed.
C9_SchemaListing ==
    req.route = "/schema"
    => /\ resp.status = 200
       /\ resp.body =
            <<[name |-> "reservation",
               fields |-> <<"name", "email", "phone", "date", "time", "guests", "notes">>],
              [name |-> "eventrequest",
               fields |-> <<"name", "company", "email", "phone", "event_date",
                            "event_type", "guests", "budget_chf", "message">>],
              [name |-> "contactmessage",
               fields |-> <<"name", "email", "phone", "subject", "message">>],
              [name |-> "testimonial",
               fields |-> <<"author", "rating", "content", "source">>]>>

\* the schema was asked for with documents stored and the store down
C9_Witness ==
    /\ req.route = "/schema"
    /\ store["contactmessage"] # <<>>
    /\ store["testimonial"] # <<>>
    /\ ~reachable

\* one document more in collection c, the other collections as they were
AddsOneTo(c) ==
    /\ Len(store'[c]) = Len(store[c]) + 1
    /\ \A d \in Collections \ {c} : store'[d] = store[d]

\* C10: a successful POST adds exactly one document to the collection of its
\* own endpoint and leaves the others unchanged; an unsuccessful POST and every
\* GET leave all collections unchanged; no route writes to testimonial.  (The
\* last three are stated by contraposition: a step that changes the store is
\* no failed POST and no GET, one that changes testimonial is no route at all.)
C10_Frame ==
    [][/\ (resp'.status = 200 /\ PostReservation) => AddsOneTo("reservation")
       /\ (resp'.status = 200 /\ PostEvent) => AddsOneTo("eventrequest")
       /\ (resp'.status = 200 /\ PostContact) => AddsOneTo("contactmessage")
       /\ (resp'.status # 200 /\ store' # store) => ~IsPost
       /\ store' # store => ~IsGet
       /\ store'["testimonial"] # store["testimonial"] => ~(IsPost \/ IsGet)]_vars

\* an event request was stored while the other collections held documents
C10_Witness ==
    /\ req.route = "/api/events"
    /\ resp.status = 200
    /\ Len(store["eventrequest"]) = 1
    /\ store["testimonial"] # <<>>
    /\ store["eventrequest"][1]["_id"].n = 2

=============================================================================
